---- MODULE Spec2Model ----
(***************************************************************************)
(* The Search component of awx/ui_next (components/Search/Search.jsx):     *)
(* a column-selector dropdown, a text input and a submit button.           *)
(*                                                                         *)
(* The model holds the component's props and this.state, the element tree  *)
(* produced by the last render(), and, for the handler that ran last, the  *)
(* event it received and the effects it had on its collaborators (the      *)
(* submit event, the parent's onSearch callback, setState).                *)
(***************************************************************************)
EXTENDS Integers, Sequences, FiniteSets, TLC

\* ------------------------------------------------------------------ bounds

\* Longest `columns` array the parent supplies.
MaxColumns == 2

\* Most clicks on the submit button in one behaviour.
MaxSubmits == 2

\* Column keys, display names and typed texts the parent and the user choose
\* from.  "Name " differs from "Name" only by trailing white space.
Keys == {"name", "id"}
Names == {"Name", "Name "}
Values == {"", "a", "b"}

\* ------------------------------------------------------------------ props

\* One entry of the `columns` prop: { name, key, isSearchable }.
Column == [key : Keys, name : Names, isSearchable : BOOLEAN]

\* The `columns` prop: PropTypes.arrayOf(PropTypes.object).isRequired.
ColumnLists == UNION {[1..n -> Column] : n \in 0..MaxColumns}

\* The `onSearch` prop: null, or a function of the parent, which returns or
\* throws.
Null == [type |-> "null"]
OnSearchFunctions == {[type |-> "function", throws |-> b] : b \in BOOLEAN}

\* The attributes a parent passes to <Search>: `columns` always, `onSearch`
\* and `sortedColumnKey` optionally.
ParentAttributes ==
    UNION { { [columns |-> c],
              [columns |-> c, onSearch |-> f],
              [columns |-> c, sortedColumnKey |-> k],
              [columns |-> c, onSearch |-> f, sortedColumnKey |-> k] }
            : <<c, f, k>> \in ColumnLists \X OnSearchFunctions \X Keys }

\* Search.defaultProps
defaultProps == [onSearch |-> Null, sortedColumnKey |-> "name"]

\* React's resolution of this.props: an attribute the parent leaves out takes
\* its value from defaultProps.
ResolveProps(attributes) ==
    [p \in DOMAIN attributes \cup DOMAIN defaultProps |->
        IF p \in DOMAIN attributes THEN attributes[p] ELSE defaultProps[p]]

\* ------------------------------------------------------------------ state

VARIABLES
    attributes,   \* what the parent passed
    props,        \* this.props
    state,        \* this.state
    phase,        \* "constructed", "mounted", or "unmounted" after render threw
    view,         \* the element tree of the last render()
    event,        \* the handler that ran last, and its argument
    effects,      \* what that handler did, in order
    nSubmit,      \* clicks on the submit button so far
    nOnSearch     \* invocations of the parent's onSearch so far

vars == <<attributes, props, state, phase, view, event, effects, nSubmit, nOnSearch>>

\* columns.find(({ key }) => key === searchKey): the first column with that
\* key, by its index; 0 stands for `undefined`.
findByKey(columns, searchKey) ==
    IF \E i \in DOMAIN columns : columns[i].key = searchKey
    THEN CHOOSE i \in DOMAIN columns :
            /\ columns[i].key = searchKey
            /\ \A j \in 1..(i - 1) : columns[j].key # searchKey
    ELSE 0

\* columns.find(({ name }) => name === innerText): the first column with that
\* name, by its index; 0 stands for `undefined`.
findByName(columns, text) ==
    IF \E i \in DOMAIN columns : columns[i].name = text
    THEN CHOOSE i \in DOMAIN columns :
            /\ columns[i].name = text
            /\ \A j \in 1..(i - 1) : columns[j].name # text
    ELSE 0

\* this.setState(partial): the fields of `partial` replace those of the state.
setState(st, partial) ==
    [f \in DOMAIN st |-> IF f \in DOMAIN partial THEN partial[f] ELSE st[f]]

\* The constructor, had it ignored the sortedColumnKey prop.
constructor_IgnoresProp(p) ==
    [isSearchDropdownOpen |-> FALSE,
     searchKey |-> "name",
     searchValue |-> ""]

\* The constructor's this.state.
constructor(p) ==
    [isSearchDropdownOpen |-> FALSE,
     searchKey |-> p.sortedColumnKey,
     searchValue |-> ""]

\* -------------------------------------------------------------------- render

\* A thrown exception, as an effect of a handler or the result of render().
TypeError == [op |-> "throw", error |-> "TypeError"]

\* render(), had its filter left out `key !== searchKey`.
render_OffersSelected(p, st) ==
    LET columns == p.columns
        selected == findByKey(columns, st.searchKey)
    IN  IF selected = 0
        THEN [element |-> "TypeError"]
        ELSE LET offered == SelectSeq(columns, LAMBDA c : c.isSearchable)
                 searchDropdownItems ==
                     [i \in 1..Len(offered) |->
                         [key |-> offered[i].key, children |-> offered[i].name]]
             IN  IF Len(searchDropdownItems) > 0
                 THEN [element |-> "Dropdown",
                       isOpen |-> st.isSearchDropdownOpen,
                       toggle |-> columns[selected].name,
                       dropdownItems |-> searchDropdownItems,
                       value |-> st.searchValue]
                 ELSE [element |-> "NoOptionDropdown",
                       children |-> columns[selected].name,
                       value |-> st.searchValue]

\* render(): the name of the selected column is read off the first column
\* whose key is searchKey (destructuring `undefined` throws a TypeError when
\* there is none); the dropdown items are the searchable columns other than
\* the selected one; the Dropdown is rendered when there are items and a
\* NoOptionDropdown label otherwise.  The text input shows searchValue.
render(p, st) ==
    LET columns == p.columns
        searchKey == st.searchKey
        selected == findByKey(columns, searchKey)
    IN  IF selected = 0
        THEN [element |-> "TypeError"]
        ELSE LET searchColumnName == columns[selected].name
                 offered == SelectSeq(columns,
                               LAMBDA c : c.isSearchable /\ c.key # searchKey)
                 searchDropdownItems ==
                     [i \in 1..Len(offered) |->
                         [key |-> offered[i].key, children |-> offered[i].name]]
             IN  IF Len(searchDropdownItems) > 0
                 THEN [element |-> "Dropdown",
                       isOpen |-> st.isSearchDropdownOpen,
                       toggle |-> searchColumnName,
                       dropdownItems |-> searchDropdownItems,
                       value |-> st.searchValue]
                 ELSE [element |-> "NoOptionDropdown",
                       children |-> searchColumnName,
                       value |-> st.searchValue]

\* target.innerText of a rendered DropdownItem: the text as the browser lays
\* it out, which drops the white space at its start and end.
RECURSIVE innerText(_)
innerText(children) ==
    IF Len(children) > 0 /\ SubSeq(children, 1, 1) = " "
    THEN innerText(SubSeq(children, 2, Len(children)))
    ELSE IF Len(children) > 0 /\ SubSeq(children, Len(children), Len(children)) = " "
    THEN innerText(SubSeq(children, 1, Len(children) - 1))
    ELSE children

\* ------------------------------------------------------------------ handlers
\* Each handler yields the state it leaves and the effects it had, in order.

handleDropdownToggle(st, isSearchDropdownOpen) ==
    LET partial == [isSearchDropdownOpen |-> isSearchDropdownOpen]
    IN  [state |-> setState(st, partial),
         effects |-> <<[op |-> "setState", partial |-> partial]>>]

\* handleDropdownSelect, had it cleared the text along with closing the menu.
handleDropdownSelect_ClearsValue(p, st, target) ==
    LET columns == p.columns
        found == findByName(columns, target.innerText)
    IN  IF found = 0
        THEN [state |-> st, effects |-> <<TypeError>>]
        ELSE LET partial == [isSearchDropdownOpen |-> FALSE,
                             searchKey |-> columns[found].key,
                             searchValue |-> ""]
             IN  [state |-> setState(st, partial),
                  effects |-> <<[op |-> "setState", partial |-> partial]>>]

\* The column is looked up by the clicked item's text; destructuring the
\* `undefined` of an unsuccessful find throws before setState.
handleDropdownSelect(p, st, target) ==
    LET columns == p.columns
        found == findByName(columns, target.innerText)
    IN  IF found = 0
        THEN [state |-> st, effects |-> <<TypeError>>]
        ELSE LET partial == [isSearchDropdownOpen |-> FALSE,
                             searchKey |-> columns[found].key]
             IN  [state |-> setState(st, partial),
                  effects |-> <<[op |-> "setState", partial |-> partial]>>]

\* handleSearch, had it called e.preventDefault() after onSearch returned.
handleSearch_PreventDefaultLast(p, st) ==
    LET preventDefault == [op |-> "preventDefault"]
        call == [op |-> "onSearch",
                 args |-> <<st.searchKey \o "__icontains", st.searchValue>>]
        partial == [searchValue |-> ""]
    IN  IF p.onSearch.type # "function"
        THEN [state |-> st, effects |-> <<TypeError>>]
        ELSE IF p.onSearch.throws
        THEN [state |-> st,
              effects |-> <<call, [op |-> "throw", error |-> "Error"]>>]
        ELSE [state |-> setState(st, partial),
              effects |-> <<call, preventDefault,
                            [op |-> "setState", partial |-> partial]>>]

\* handleSearch, had it left the text in place after the callback.
handleSearch_KeepsValue(p, st) ==
    LET preventDefault == [op |-> "preventDefault"]
        call == [op |-> "onSearch",
                 args |-> <<st.searchKey \o "__icontains", st.searchValue>>]
    IN  IF p.onSearch.type # "function"
        THEN [state |-> st, effects |-> <<preventDefault, TypeError>>]
        ELSE IF p.onSearch.throws
        THEN [state |-> st,
              effects |-> <<preventDefault, call, [op |-> "throw", error |-> "Error"]>>]
        ELSE [state |-> st, effects |-> <<preventDefault, call>>]

\* e.preventDefault(), then onSearch(`${searchKey}__icontains`, searchValue),
\* then setState({ searchValue: '' }).  Calling the null default of onSearch
\* throws a TypeError; an onSearch that throws ends the handler as well.
handleSearch(p, st) ==
    LET preventDefault == [op |-> "preventDefault"]
        call == [op |-> "onSearch",
                 args |-> <<st.searchKey \o "__icontains", st.searchValue>>]
        partial == [searchValue |-> ""]
    IN  IF p.onSearch.type # "function"
        THEN [state |-> st, effects |-> <<preventDefault, TypeError>>]
        ELSE IF p.onSearch.throws
        THEN [state |-> st,
              effects |-> <<preventDefault, call, [op |-> "throw", error |-> "Error"]>>]
        ELSE [state |-> setState(st, partial),
              effects |-> <<preventDefault, call,
                            [op |-> "setState", partial |-> partial]>>]

handleSearchInputChange(st, searchValue) ==
    LET partial == [searchValue |-> searchValue]
    IN  [state |-> setState(st, partial),
         effects |-> <<[op |-> "setState", partial |-> partial]>>]

\* The invocations of the parent's onSearch among a handler's effects.
OnSearchCalls(fx) == SelectSeq(fx, LAMBDA e : e.op = "onSearch")

\* ------------------------------------------------------------------- actions

Init ==
    /\ attributes \in ParentAttributes
    /\ props = ResolveProps(attributes)
    /\ state = constructor(props)
    /\ phase = "constructed"
    /\ view = [element |-> "none"]
    /\ event = [handler |-> "constructor"]
    /\ effects = <<>>
    /\ nSubmit = 0
    /\ nOnSearch = 0

\* React renders after the constructor and after every handler; a render that
\* throws unmounts the component.
Rendered(st) ==
    /\ view' = render(props, st)
    /\ phase' = IF view'.element = "TypeError" THEN "unmounted" ELSE "mounted"

\* A handler ran on `ev` with result `r`.
Handled(ev, r) ==
    /\ state' = r.state
    /\ event' = ev
    /\ effects' = r.effects
    /\ nOnSearch' = nOnSearch + Len(OnSearchCalls(r.effects))
    /\ Rendered(r.state)
    /\ UNCHANGED <<attributes, props>>

\* The first render.
Mount ==
    /\ phase = "constructed"
    /\ Rendered(state)
    /\ event' = [handler |-> "render"]
    /\ UNCHANGED <<attributes, props, state, effects, nSubmit, nOnSearch>>

\* The DropdownToggle, which exists only inside the Dropdown, reports a click.
DropdownToggle(isOpen) ==
    /\ phase = "mounted"
    /\ view.element = "Dropdown"
    /\ Handled([handler |-> "handleDropdownToggle", isOpen |-> isOpen],
               handleDropdownToggle(state, isOpen))
    /\ UNCHANGED nSubmit

\* The user clicks the i-th item of the Dropdown.
DropdownSelect(i) ==
    /\ phase = "mounted"
    /\ view.element = "Dropdown"
    /\ i \in DOMAIN view.dropdownItems
    /\ LET item == view.dropdownItems[i]
           target == [innerText |-> innerText(item.children)]
       IN  Handled([handler |-> "handleDropdownSelect", item |-> item],
                   handleDropdownSelect(props, state, target))
    /\ UNCHANGED nSubmit

\* The user edits the text input.
SearchInputChange(value) ==
    /\ phase = "mounted"
    /\ Handled([handler |-> "handleSearchInputChange", value |-> value],
               handleSearchInputChange(state, value))
    /\ UNCHANGED nSubmit

\* The user clicks the submit button.
Search ==
    /\ phase = "mounted"
    /\ nSubmit < MaxSubmits
    /\ nSubmit' = nSubmit + 1
    /\ Handled([handler |-> "handleSearch"], handleSearch(props, state))

Next ==
    \/ Mount
    \/ \E isOpen \in BOOLEAN : DropdownToggle(isOpen)
    \/ \E i \in 1..MaxColumns : DropdownSelect(i)
    \/ \E value \in Values : SearchInputChange(value)
    \/ Search

Spec == Init /\ [][Next]_vars

\* -------------------------------------------------------------------- claims

\* A handler's effects hold no thrown exception.
Succeeded(fx) == \A i \in DOMAIN fx : fx[i].op # "throw"

\* The step is a click on the submit button.
SubmitStep == nSubmit' = nSubmit + 1

\* The indices of the columns render() is to offer: searchable, and not the
\* selected one.
Offerable == {i \in DOMAIN props.columns :
                /\ props.columns[i].isSearchable
                /\ props.columns[i].key # state.searchKey}

\* C1: in every state from construction onward, searchKey is the key of some
\* entry of the supplied columns.
C1_SearchKeyInColumns ==
    \E i \in DOMAIN props.columns : props.columns[i].key = state.searchKey

\* C2: every submit invokes onSearch exactly once, with the selected key
\* followed by "__icontains" and the text held at the moment of the submit.
C2_SubmitCallsOnSearchOnce ==
    [][SubmitStep =>
        OnSearchCalls(effects') =
            <<[op |-> "onSearch",
               args |-> <<state.searchKey \o "__icontains", state.searchValue>>]>>]_vars

\* C3: after the user selects the dropdown item rendered from column c,
\* searchKey is c.key, also when two columns share a name.  Stated for the
\* column lists whose names the browser shows as they are written.
C3_SelectSetsKeyOfItem ==
    (/\ event.handler = "handleDropdownSelect"
     /\ \A i \in DOMAIN props.columns :
           innerText(props.columns[i].name) = props.columns[i].name)
        => state.searchKey = event.item.key

\* C4: the number of onSearch invocations equals the number of submits.
C4_OnSearchCountIsSubmitCount == nOnSearch = nSubmit

\* C5: a text input change sets searchValue to the given value and leaves
\* searchKey and isSearchDropdownOpen alone; a dropdown toggle sets
\* isSearchDropdownOpen to the given flag and leaves searchKey and searchValue
\* alone; a dropdown select leaves searchValue alone.
C5_HandlerFrames ==
    [][/\ event'.handler = "handleSearchInputChange" =>
            /\ state'.searchValue = event'.value
            /\ state'.searchKey = state.searchKey
            /\ state'.isSearchDropdownOpen = state.isSearchDropdownOpen
       /\ event'.handler = "handleDropdownToggle" =>
            /\ state'.isSearchDropdownOpen = event'.isOpen
            /\ state'.searchKey = state.searchKey
            /\ state'.searchValue = state.searchValue
       /\ event'.handler = "handleDropdownSelect" =>
            state'.searchValue = state.searchValue]_vars

\* A dropdown select ran while text was typed in.
C5_Witness ==
    /\ event.handler = "handleDropdownSelect"
    /\ Succeeded(effects)
    /\ state.searchValue # ""

\* C6: the constructed component has the dropdown closed, the empty text, and
\* as selected key the sortedColumnKey the parent passed, or "name" when it
\* passed none.
C6_InitialState ==
    phase = "constructed" =>
        /\ state.isSearchDropdownOpen = FALSE
        /\ state.searchValue = ""
        /\ state.searchKey = IF "sortedColumnKey" \in DOMAIN attributes
                             THEN attributes.sortedColumnKey
                             ELSE "name"

\* A component constructed with a sortedColumnKey other than the default.
C6_Witness ==
    /\ phase = "constructed"
    /\ "sortedColumnKey" \in DOMAIN attributes
    /\ state.searchKey = "id"

\* C7: on every submit preventDefault is called, once and before onSearch is
\* invoked, also when onSearch throws or is absent.
C7_PreventDefaultFirst ==
    event.handler = "handleSearch" =>
        /\ Len(effects) >= 1
        /\ effects[1].op = "preventDefault"
        /\ \A i \in 2..Len(effects) : effects[i].op # "preventDefault"

\* A submit without an onSearch, which called preventDefault and then threw.
C7_Witness ==
    /\ event.handler = "handleSearch"
    /\ props.onSearch = Null
    /\ ~Succeeded(effects)
    /\ effects[1].op = "preventDefault"

C9_View ==
    phase = "mounted" =>
        LET items == IF view.element = "Dropdown" THEN view.dropdownItems ELSE <<>>
            nth(j) == CHOOSE i \in Offerable :
                         Cardinality({m \in Offerable : m <= i}) = j
        IN  /\ Len(items) = Cardinality(Offerable)
            /\ \A j \in 1..Len(items) :
                  /\ items[j].key = props.columns[nth(j)].key
                  /\ items[j].children = props.columns[nth(j)].name
                  /\ items[j].key # state.searchKey
            /\ (Offerable = {}) <=> (view.element = "NoOptionDropdown")
            /\ (Offerable # {}) <=> (view.element = "Dropdown")
            /\ view.element = "NoOptionDropdown" =>
                  \E i \in DOMAIN props.columns :
                      /\ props.columns[i].key = state.searchKey
                      /\ view.children = props.columns[i].name

====
